---- MODULE Spec2Model ----
(***************************************************************************)
(* Model of the filesystem-client charm: the reconciliation pass           *)
(* FilesystemClientCharm._handle_event (src/src/charm.py), the autofs      *)
(* operations of MountsManager (src/src/utils/manager.py) and the          *)
(* consumer side of the interface library (FsRequires.endpoints,           *)
(* src/lib/charms/storage_client/v0/fs_interfaces.py).                     *)
(*                                                                         *)
(* A pass is modelled step by step (one step per call of umount or mount)  *)
(* so that the intermediate states of the disk are visible.  The inputs of *)
(* a pass (charm configuration, relation databags) change only between two *)
(* passes: hooks run one at a time.                                        *)
(*                                                                         *)
(* The handler never reads a status and sets the unit status first (line   *)
(* 56): unit_status and app_status hold what the running handler has set   *)
(* and read "unknown" between two hooks.  In the same way calls, outcome   *)
(* and table0 describe the running pass only.                              *)
(***************************************************************************)
EXTENDS Integers, Sequences, FiniteSets, TLC

VARIABLES
    config,       \* charm option `mountinfo`: [json_ok, entries]
    rels,         \* the fs-share relations, in order: remote app databags
    peers,        \* TRUE once the peer relation `storage-peers` exists
    table,        \* peer data key `mounts` (the persisted mount table)
    installed,    \* MountsManager.installed
    master,       \* id -> content of /etc/auto.master.d/<id>.autofs
    automap,      \* id -> content of /etc/auto.<id>
    dirs,         \* existing mountpoint directories
    unit_status,  \* self.unit.status as set by the running handler
    app_status,   \* self.app.status as set by the running handler
    table0,       \* the persisted mount table when the running pass started
    pc,           \* position of the handler: "idle", "with", "done"
    mounts,       \* the dict yielded by `with self.mounts() as mounts`
    idx,          \* index of the current share in `for share in shares`
    umounted,     \* line 115 has run for the current share
    calls,        \* calls of MountsManager.umount / mount made by this pass
    outcome,      \* how the pass ended
    fresh,        \* the previous pass ended Active and no input changed since
    aborted,      \* a call of the manager raised in a pass, and no pass has
                  \* ended Active since
    probe,        \* the last direct call of a library or manager function
    provider      \* the providing application seen by FsProvides

vars == <<config, rels, peers, table, installed, master, automap, dirs,
          unit_status, app_status, table0, pc, mounts, idx, umounted, calls, outcome,
          fresh, aborted, probe, provider>>

----------------------------------------------------------------------------
(* Bounds and input sets *)

\* Largest number of fs-share relations.
MaxRelations == 2

\* Filesystem kinds: the values of FsInfo.fs_type().
Kinds == {"nfs", "ceph"}

\* Mountpoint strings, as sequences of characters.
MP_A == <<"/", "a">>
MP_B == <<"/", "b">>
Mountpoints == {MP_A, MP_B}

\* The flag keys of a `mountinfo` entry.
FlagNames == {"noexec", "nosuid", "nodev", "read-only"}

\* Raw `mountinfo` entries a user can configure for one kind: a mountpoint and
\* the set of flags given as true (a flag left out and a flag given as false
\* read the same, line 68).
RawEntries ==
    { [mountpoint |-> MP_A, flags |-> {}],
      [mountpoint |-> MP_B, flags |-> {"nodev", "read-only"}] }

\* Endpoint URIs a provider can publish.  An empty host stands for a URI whose
\* host list does not parse.
Uris ==
    { [scheme |-> "nfs", host |-> "h1"],
      [scheme |-> "nfs", host |-> "h2"],
      [scheme |-> "ceph", host |-> "h1"],
      [scheme |-> "nfs", host |-> ""] }

\* The empty dict.
EmptyDict == <<>>

\* Optional[int]: None is the empty set, an integer its singleton.
None == {}
Some(x) == {x}

\* No function has been called directly; no provider is looked at.
NoProbe == [fn |-> "none"]
NoProvider == [unit |-> "none"]

----------------------------------------------------------------------------
(* Paths: src/src/utils/manager.py *)

RECURSIVE Collapse(_)
\* Repeated separators read as one.
Collapse(s) ==
    IF Len(s) <= 1 THEN s
    ELSE IF s[1] = "/" /\ s[2] = "/" THEN Collapse(Tail(s))
    ELSE <<s[1]>> \o Collapse(Tail(s))

\* pathlib.Path(mountpoint) and .resolve() for an absolute path without
\* symbolic links or dot segments: separators collapsed, no trailing one.
Resolve(s) ==
    LET c == Collapse(s)
    IN IF Len(c) > 1 /\ c[Len(c)] = "/" THEN SubSeq(c, 1, Len(c) - 1) ELSE c

RECURSIVE LStrip(_)
\* str.lstrip("/")
LStrip(s) ==
    IF s # <<>> /\ s[1] = "/" THEN LStrip(Tail(s)) ELSE s

\* str.replace("/", "-")
Replace(s) == [i \in 1..Len(s) |-> IF s[i] = "/" THEN "-" ELSE s[i]]

\* _mountpoint_to_autofs_id without .replace("/", "-").
mountpoint_to_autofs_id_unreplaced(mountpoint) == LStrip(Resolve(mountpoint))

\* _mountpoint_to_autofs_id
mountpoint_to_autofs_id(mountpoint) == Replace(LStrip(Resolve(mountpoint)))

RECURSIVE LastSlash(_)
LastSlash(s) ==
    IF s = <<>> THEN 0
    ELSE IF s[Len(s)] = "/" THEN Len(s)
    ELSE LastSlash(SubSeq(s, 1, Len(s) - 1))

\* Parent directory of a resolved absolute path.
Parent(p) ==
    LET n == LastSlash(p) IN IF n <= 1 THEN <<"/">> ELSE SubSeq(p, 1, n - 1)

\* p is d or lies below d.
IsUnder(p, d) ==
    \/ p = d
    \/ /\ Len(p) > Len(d)
       /\ SubSeq(p, 1, Len(d)) = d
       /\ p[Len(d) + 1] = "/"

DirExists(p, ds) == p = <<"/">> \/ p \in ds

RECURSIVE Str(_)
\* str(path): the text of a sequence of characters.
Str(s) == IF s = <<>> THEN "" ELSE s[1] \o Str(Tail(s))

RECURSIVE Join(_, _)
\* sep.join(strs)
Join(strs, sep) ==
    IF strs = <<>> THEN ""
    ELSE IF Len(strs) = 1 THEN strs[1]
    ELSE strs[1] \o sep \o Join(Tail(strs), sep)


----------------------------------------------------------------------------
(* Dicts *)

DictSet(d, k, v) == [i \in DOMAIN d \cup {k} |-> IF i = k THEN v ELSE d[i]]

DictDel(d, k) == [i \in DOMAIN d \ {k} |-> d[i]]

\* json.dumps of a dict: the members of the JSON object.
json_dumps(d) == {<<k, d[k]>> : k \in DOMAIN d}

\* json.loads of a JSON object.
json_loads(s) ==
    [k \in {m[1] : m \in s} |-> (CHOOSE m \in s : m[1] = k)[2]]

----------------------------------------------------------------------------
(* MountsManager: src/src/utils/manager.py *)

\* The part of the machine the manager writes.
Disk == [master |-> master, automap |-> automap, dirs |-> dirs]

\* umount with Path.unlink() in place of Path.unlink(missing_ok=True).
umount_strict(d, mountpoint, reload_ok, rm_ok) ==
    LET autofs_id == mountpoint_to_autofs_id(mountpoint)
        unlinked == [d EXCEPT !.automap = DictDel(d.automap, autofs_id),
                              !.master = DictDel(d.master, autofs_id)]
    IN IF autofs_id \notin DOMAIN d.automap
       THEN [disk |-> d, raised |-> "FileNotFoundError"]
       ELSE IF autofs_id \notin DOMAIN d.master
       THEN [disk |-> [d EXCEPT !.automap = DictDel(d.automap, autofs_id)],
             raised |-> "FileNotFoundError"]
       ELSE IF ~reload_ok
       THEN [disk |-> unlinked, raised |-> "Error"]
       ELSE [disk |-> [unlinked EXCEPT !.dirs =
                          IF rm_ok
                          THEN {p \in d.dirs : ~IsUnder(p, Resolve(mountpoint))}
                          ELSE d.dirs],
             raised |-> "no"]

\* MountsManager.umount.  reload_ok: systemd.service_reload succeeds;
\* rm_ok: shutil.rmtree removes the tree (its errors are ignored).
umount(d, mountpoint, reload_ok, rm_ok) ==
    LET autofs_id == mountpoint_to_autofs_id(mountpoint)
        unlinked == [d EXCEPT !.automap = DictDel(d.automap, autofs_id),
                              !.master = DictDel(d.master, autofs_id)]
    IN IF ~reload_ok
       THEN [disk |-> unlinked, raised |-> "Error"]
       ELSE [disk |-> [unlinked EXCEPT !.dirs =
                          IF rm_ok
                          THEN {p \in d.dirs : ~IsUnder(p, Resolve(mountpoint))}
                          ELSE d.dirs],
             raised |-> "no"]

\* The hostnames that ipaddress.IPv6Address accepts, among those the manager
\* is given here (it only copies a hostname: an atom).
IPv6Literals == {"::1"}

\* _get_endpoint_and_opts without the brackets of lines 262-267.
get_endpoint_and_opts_unbracketed(info) ==
    IF info.fs_type = "nfs"
    THEN [raised |-> "no",
          endpoint |-> info.hostname \o ":" \o info.path,
          options |-> IF info.port \notin {None, Some(0)}
                      THEN <<"port=" \o ToString(CHOOSE n \in info.port : TRUE)>>
                      ELSE <<>>]
    ELSE IF info.fs_type = "ceph"
    THEN [raised |-> "no",
          endpoint |-> info.user \o "@" \o info.fsid \o "." \o info.name
                       \o "=" \o info.path,
          options |-> <<"fstype=ceph",
                        "mon_addr=" \o Join(info.monitor_hosts, "/"),
                        "secret=" \o info.key>>]
    ELSE [raised |-> "Error", endpoint |-> "", options |-> <<>>]

\* _get_endpoint_and_opts, lines 259-284.
get_endpoint_and_opts(info) ==
    IF info.fs_type = "nfs"
    THEN [raised |-> "no",
          endpoint |-> (IF info.hostname \in IPv6Literals
                        THEN "[" \o info.hostname \o "]"
                        ELSE info.hostname) \o ":" \o info.path,
          options |-> IF info.port \notin {None, Some(0)}
                      THEN <<"port=" \o ToString(CHOOSE n \in info.port : TRUE)>>
                      ELSE <<>>]
    ELSE IF info.fs_type = "ceph"
    THEN [raised |-> "no",
          endpoint |-> info.user \o "@" \o info.fsid \o "." \o info.name
                       \o "=" \o info.path,
          options |-> <<"fstype=ceph",
                        "mon_addr=" \o Join(info.monitor_hosts, "/"),
                        "secret=" \o info.key>>]
    ELSE [raised |-> "Error", endpoint |-> "", options |-> <<>>]

\* supported() taking a failed detection for an unsupported machine.
supported_unless_detected(virt) == virt \notin {"lxc", "failed"}

\* MountsManager.supported, lines 95-108.  virt: "lxc" or "kvm" as printed by
\* systemd-detect-virt, or "failed" when it exits with an error.
supported(virt) == virt # "lxc"

\* The message of the Error that mount raises when the reload of autofs
\* failed with the SystemdError `e`, lines 187-191.
mount_error(e, virt) ==
    IF e = "Operation not permitted" /\ ~supported(virt)
    THEN "Mounting shares not supported on LXD containers"
    ELSE "Failed to mount"

\* mount without the `except FileExistsError` of lines 170-171.
mount_mkdir_unguarded(d, share_info, mountpoint, options, reload_ok) ==
    LET target == Resolve(mountpoint)
        autofs_id == mountpoint_to_autofs_id(target)
        made == [d EXCEPT !.dirs = d.dirs \cup {target}]
        eo == get_endpoint_and_opts(share_info)
        written == [made EXCEPT
                      !.master = DictSet(made.master, autofs_id,
                                         "/- /etc/auto." \o Str(autofs_id)),
                      !.automap = DictSet(made.automap, autofs_id,
                                          [mountpoint |-> target,
                                           options |-> options,
                                           share_info |-> share_info,
                                           text |-> Str(target) \o " -"
                                                    \o Join(options \o eo.options, ",")
                                                    \o " " \o eo.endpoint])]
    IN IF target \in d.dirs
       THEN [disk |-> d, raised |-> "FileExistsError"]
       ELSE IF ~DirExists(Parent(target), d.dirs)
       THEN [disk |-> d, raised |-> "FileNotFoundError"]
       ELSE IF eo.raised # "no"
       THEN [disk |-> made, raised |-> "Error"]
       ELSE IF ~reload_ok
       THEN [disk |-> written, raised |-> "Error"]
       ELSE [disk |-> written, raised |-> "no"]

\* MountsManager.mount, lines 147-191.  A map entry keeps, beside the text
\* written to the file, the arguments the text was written from.
mount(d, share_info, mountpoint, options, reload_ok) ==
    LET target == Resolve(mountpoint)
        autofs_id == mountpoint_to_autofs_id(target)
        made == [d EXCEPT !.dirs = d.dirs \cup {target}]
        eo == get_endpoint_and_opts(share_info)
        written == [made EXCEPT
                      !.master = DictSet(made.master, autofs_id,
                                         "/- /etc/auto." \o Str(autofs_id)),
                      !.automap = DictSet(made.automap, autofs_id,
                                          [mountpoint |-> target,
                                           options |-> options,
                                           share_info |-> share_info,
                                           text |-> Str(target) \o " -"
                                                    \o Join(options \o eo.options, ",")
                                                    \o " " \o eo.endpoint])]
    IN IF target \notin d.dirs /\ ~DirExists(Parent(target), d.dirs)
       THEN [disk |-> d, raised |-> "FileNotFoundError"]
       ELSE IF eo.raised # "no"
       THEN [disk |-> made, raised |-> "Error"]
       ELSE IF ~reload_ok
       THEN [disk |-> written, raised |-> "Error"]
       ELSE [disk |-> written, raised |-> "no"]

----------------------------------------------------------------------------
(* Interface library: src/lib/charms/storage_client/v0/fs_interfaces.py *)

\* _uri_to_share_info raises: unsupported scheme, or the URI does not parse.
uri_parse_fails(uri) == uri.scheme \notin Kinds \/ uri.host = ""

\* _uri_to_share_info, for a URI that parses.  The URIs of the relations
\* differ in scheme and host only: the other fields of the descriptor are
\* fixed.
uri_to_share_info(uri) ==
    IF uri.scheme = "nfs"
    THEN [fs_type |-> "nfs", hostname |-> uri.host, port |-> None,
          path |-> "/srv"]
    ELSE [fs_type |-> "ceph", fsid |-> "fsid", name |-> "name",
          path |-> "/export", monitor_hosts |-> <<uri.host>>, user |-> "user",
          key |-> "key"]

\* FsRequires.endpoints raises: a databag without `endpoint` is not skipped
\* (`pass`), so None reaches _uri_to_share_info; a parse error propagates.
endpoints_raises(rs) ==
    \E i \in 1..Len(rs) :
        IF "endpoint" \notin DOMAIN rs[i] THEN TRUE
        ELSE uri_parse_fails(rs[i].endpoint)

\* FsRequires.endpoints: one Endpoint per relation, in relation order.
endpoints(rs) ==
    [i \in 1..Len(rs) |->
        [fs_info |-> uri_to_share_info(rs[i].endpoint), uri |-> rs[i].endpoint]]

----------------------------------------------------------------------------
(* FilesystemClientCharm: src/src/charm.py *)

\* Lines 66-68: every flag left out of an entry reads False.
with_defaults(entry) ==
    [mountpoint |-> entry.mountpoint,
     noexec |-> "noexec" \in entry.flags,
     nosuid |-> "nosuid" \in entry.flags,
     nodev |-> "nodev" \in entry.flags,
     read_only |-> "read-only" \in entry.flags]

\* Lines 63-68: the parsed configuration.
parsed_config ==
    [k \in DOMAIN config.entries |-> with_defaults(config.entries[k])]

\* Line 75.
shares == endpoints(rels)

\* Variant of too_many_relations: the count of line 78 is never above one.
too_many_relations_unchecked == FALSE

\* Lines 77-82: some fs_type is advertised by more than one share.
too_many_relations ==
    \E i, j \in 1..Len(rels) :
        i < j /\ shares[i].fs_info.fs_type = shares[j].fs_info.fs_type

\* Lines 76-83.
active_filesystems == {shares[i].fs_info.fs_type : i \in 1..Len(rels)}

\* Line 100: the options of the share's kind with the share's URI added.
options_of(share) ==
    LET o == parsed_config[share.fs_info.fs_type]
    IN [mountpoint |-> o.mountpoint, noexec |-> o.noexec, nosuid |-> o.nosuid,
        nodev |-> o.nodev, read_only |-> o.read_only, uri |-> share.uri]

\* Lines 104-108.
opts_of(options) ==
    << IF options.noexec THEN "noexec" ELSE "exec",
       IF options.nosuid THEN "nosuid" ELSE "suid",
       IF options.nodev THEN "nodev" ELSE "dev",
       IF options.read_only THEN "ro" ELSE "rw" >>

\* get_state("mounts"): {} without peers or without the key.
get_state == IF ~peers THEN EmptyDict ELSE json_loads(table)

\* Variant of table_on_exception: the save sits in a `finally`, so the dict is
\* written although the block raised.
table_on_exception_saves(ms) == IF peers THEN json_dumps(ms) ELSE table

\* mounts(), lines 130-133: an exception raised inside the with block is
\* thrown into the generator at the yield, so set_state is not reached and
\* the peer data keeps its value.
table_on_exception(ms) == table

\* Variant of needs_mount: every share is remounted on every pass.
needs_mount_always(ms, share) == TRUE

\* Variant of needs_mount: the record is compared without its `uri`.
needs_mount_ignores_uri(ms, share) ==
    IF share.fs_info.fs_type \notin DOMAIN ms THEN TRUE
    ELSE [ms[share.fs_info.fs_type] EXCEPT !.uri = share.uri] # options_of(share)

\* Line 112: the share must be (re)mounted.
needs_mount(ms, share) ==
    IF share.fs_info.fs_type \notin DOMAIN ms THEN TRUE
    ELSE ms[share.fs_info.fs_type] # options_of(share)

\* Variant of stale_kinds: the cleanup loop is missing.
stale_kinds_none(ms) == {}

\* Kinds recorded in the dict that no share advertises (line 88).
stale_kinds(ms) == DOMAIN ms \ active_filesystems

----------------------------------------------------------------------------
(* Initial state: a freshly deployed unit *)

InitCharm ==
    /\ config = [json_ok |-> TRUE, entries |-> EmptyDict]
    /\ rels = <<>>
    /\ peers = FALSE
    /\ table = {}
    /\ installed = FALSE
    /\ master = EmptyDict
    /\ automap = EmptyDict
    /\ dirs = {}
    /\ unit_status = "unknown"
    /\ app_status = "unknown"
    /\ table0 = {}
    /\ pc = "idle"
    /\ mounts = EmptyDict
    /\ idx = 0
    /\ umounted = FALSE
    /\ calls = <<>>
    /\ outcome = "none"
    /\ fresh = FALSE
    /\ aborted = FALSE

Init ==
    /\ InitCharm
    /\ probe = NoProbe
    /\ provider = NoProvider

\* The variables of the charm and of its machine.
charm_vars == <<config, rels, peers, table, installed, master, automap, dirs,
                unit_status, app_status, table0, pc, mounts, idx, umounted,
                calls, outcome, fresh, aborted>>

env_vars == <<config, rels, peers>>
lab_vars == <<probe, provider>>
disk_vars == <<master, automap, dirs>>
loop_vars == <<mounts, idx, umounted>>

----------------------------------------------------------------------------
(* The environment: the operator and the providers, between two passes *)

Configs ==
    {[json_ok |-> FALSE, entries |-> EmptyDict]} \cup
    {[json_ok |-> TRUE, entries |-> e] :
        e \in UNION {[ks -> RawEntries] : ks \in SUBSET Kinds}}

\* juju config mountinfo=...
ConfigChanged ==
    /\ pc = "idle"
    /\ \E c \in Configs : c # config /\ config' = c
    /\ fresh' = FALSE
    /\ UNCHANGED <<rels, peers, table, installed, disk_vars, unit_status,
                   app_status, table0, pc, loop_vars, calls, outcome>>
    /\ UNCHANGED <<aborted, lab_vars>>

\* juju integrate: a new fs-share relation, its databag still empty.
RelationJoined ==
    /\ pc = "idle"
    /\ Len(rels) < MaxRelations
    /\ rels' = Append(rels, EmptyDict)
    /\ fresh' = FALSE
    /\ UNCHANGED <<config, peers, table, installed, disk_vars, unit_status,
                   app_status, table0, pc, loop_vars, calls, outcome>>
    /\ UNCHANGED <<aborted, lab_vars>>

\* A provider publishes (or replaces) the endpoint of its relation.
RelationChanged ==
    /\ pc = "idle"
    /\ \E i \in 1..Len(rels), u \in Uris :
          /\ rels[i] # [endpoint |-> u]
          /\ rels' = [rels EXCEPT ![i] = [endpoint |-> u]]
    /\ fresh' = FALSE
    /\ UNCHANGED <<config, peers, table, installed, disk_vars, unit_status,
                   app_status, table0, pc, loop_vars, calls, outcome>>
    /\ UNCHANGED <<aborted, lab_vars>>

\* juju remove-relation.
RelationDeparted ==
    /\ pc = "idle"
    /\ \E i \in 1..Len(rels) :
          rels' = SubSeq(rels, 1, i - 1) \o SubSeq(rels, i + 1, Len(rels))
    /\ fresh' = FALSE
    /\ UNCHANGED <<config, peers, table, installed, disk_vars, unit_status,
                   app_status, table0, pc, loop_vars, calls, outcome>>
    /\ UNCHANGED <<aborted, lab_vars>>

\* The peer relation is established.
PeerRelationCreated ==
    /\ pc = "idle"
    /\ ~peers
    /\ peers' = TRUE
    /\ fresh' = FALSE
    /\ UNCHANGED <<config, rels, table, installed, disk_vars, unit_status,
                   app_status, table0, pc, loop_vars, calls, outcome>>
    /\ UNCHANGED <<aborted, lab_vars>>

----------------------------------------------------------------------------
(* _handle_event, lines 55-85: up to the entry of the with block *)

\* The unit status after lines 56-60.
status_after_ensure ==
    IF installed THEN "maintenance_updating" ELSE "maintenance_installing"

\* Line 60: MountsManager.ensure raises Error.
EnsureRaises ==
    /\ pc = "idle"
    /\ ~installed
    /\ unit_status' = "maintenance_installing"
    /\ pc' = "done"
    /\ outcome' = "error_ensure"
    /\ calls' = <<>>
    /\ table0' = table
    /\ UNCHANGED <<env_vars, table, installed, disk_vars, app_status,
                   loop_vars, fresh>>
    /\ UNCHANGED <<aborted, lab_vars>>

\* Lines 69-73: the configuration does not parse or validate.
InvalidConfiguration ==
    /\ pc = "idle"
    /\ ~config.json_ok
    /\ installed' = TRUE
    /\ unit_status' = status_after_ensure
    /\ app_status' = "blocked_invalid_configuration"
    /\ pc' = "done"
    /\ outcome' = "blocked_invalid_configuration"
    /\ calls' = <<>>
    /\ table0' = table
    /\ UNCHANGED <<env_vars, table, disk_vars, loop_vars, fresh>>
    /\ UNCHANGED <<aborted, lab_vars>>

\* Line 75: FsRequires.endpoints raises.
EndpointsRaises ==
    /\ pc = "idle"
    /\ config.json_ok
    /\ endpoints_raises(rels)
    /\ installed' = TRUE
    /\ unit_status' = status_after_ensure
    /\ pc' = "done"
    /\ outcome' = "error_endpoints"
    /\ calls' = <<>>
    /\ table0' = table
    /\ UNCHANGED <<env_vars, table, disk_vars, app_status, loop_vars, fresh>>
    /\ UNCHANGED <<aborted, lab_vars>>

\* Lines 77-82: two shares of one kind.
TooManyRelations ==
    /\ pc = "idle"
    /\ config.json_ok
    /\ ~endpoints_raises(rels)
    /\ too_many_relations
    /\ installed' = TRUE
    /\ unit_status' = status_after_ensure
    /\ app_status' = "blocked_too_many_relations"
    /\ pc' = "done"
    /\ outcome' = "blocked_too_many_relations"
    /\ calls' = <<>>
    /\ table0' = table
    /\ UNCHANGED <<env_vars, table, disk_vars, loop_vars, fresh>>
    /\ UNCHANGED <<aborted, lab_vars>>

\* Line 85 and mounts(), line 129: the with block is entered.
EnterWith ==
    /\ pc = "idle"
    /\ config.json_ok
    /\ ~endpoints_raises(rels)
    /\ ~too_many_relations
    /\ installed' = TRUE
    /\ unit_status' = status_after_ensure
    /\ mounts' = get_state
    /\ idx' = 1
    /\ umounted' = FALSE
    /\ pc' = "with"
    /\ calls' = <<>>
    /\ table0' = table
    /\ UNCHANGED <<env_vars, table, disk_vars, app_status, outcome, fresh>>
    /\ UNCHANGED <<aborted, lab_vars>>

----------------------------------------------------------------------------
(* _handle_event, lines 85-119: the with block *)

\* One entry of the log of manager calls.  kind is the kind whose record or
\* share the call is made for; stale marks the call of line 89.
Call(op, mountpoint, kind, stale) ==
    [op |-> op, mountpoint |-> mountpoint, kind |-> kind, stale |-> stale]

\* The current share of the loop of line 92.
share == shares[idx]

\* Lines 87-90: umount one recorded kind that no share advertises and drop
\* its record.  list(mounts.keys()) is walked in the order of the dict; the
\* model admits every order.
CleanupUmount ==
    /\ pc = "with"
    /\ \E fs_type \in stale_kinds(mounts), reload_ok \in BOOLEAN, rm_ok \in BOOLEAN :
          LET r == umount(Disk, mounts[fs_type].mountpoint, reload_ok, rm_ok)
          IN /\ master' = r.disk.master
             /\ automap' = r.disk.automap
             /\ dirs' = r.disk.dirs
             /\ calls' = Append(calls, Call("umount", mounts[fs_type].mountpoint,
                                            fs_type, TRUE))
             /\ IF r.raised = "no"
                THEN /\ mounts' = DictDel(mounts, fs_type)
                     /\ UNCHANGED <<pc, outcome>>
                ELSE /\ pc' = "done"
                     /\ outcome' = "error_umount"
                     /\ UNCHANGED mounts
    /\ table' = IF pc' = "done" THEN table_on_exception(mounts) ELSE table
    /\ UNCHANGED <<env_vars, installed, unit_status, app_status, table0, idx,
                   umounted, fresh>>
    /\ UNCHANGED <<aborted, lab_vars>>

\* mounts(), lines 130-133, when the with block is left without an exception:
\* set_state("mounts", mounts), which raises RuntimeError without peers.
set_state_raises == ~peers

\* Variant of MissingConfiguration: a share without configuration is skipped
\* silently (`continue` in place of the status and the return).
MissingConfigurationSkipped ==
    /\ pc = "with"
    /\ stale_kinds(mounts) = {}
    /\ idx <= Len(rels)
    /\ share.fs_info.fs_type \notin DOMAIN parsed_config
    /\ idx' = idx + 1
    /\ UNCHANGED <<env_vars, table, installed, disk_vars, unit_status,
                   app_status, table0, pc, mounts, umounted, calls, outcome,
                   fresh>>
    /\ UNCHANGED <<aborted, lab_vars>>

\* Lines 94-98: no configuration for the kind of the share; the return leaves
\* the with block, which saves the dict.
MissingConfiguration ==
    /\ pc = "with"
    /\ stale_kinds(mounts) = {}
    /\ idx <= Len(rels)
    /\ share.fs_info.fs_type \notin DOMAIN parsed_config
    /\ app_status' = "blocked_missing_configuration"
    /\ pc' = "done"
    /\ IF set_state_raises
       THEN outcome' = "error_set_state" /\ UNCHANGED table
       ELSE outcome' = "blocked_missing_configuration" /\ table' = json_dumps(mounts)
    /\ UNCHANGED <<env_vars, installed, disk_vars, unit_status, table0,
                   loop_vars, calls, fresh>>
    /\ UNCHANGED <<aborted, lab_vars>>

\* Lines 100-112: the record of the kind equals the desired one.
ShareUpToDate ==
    /\ pc = "with"
    /\ stale_kinds(mounts) = {}
    /\ idx <= Len(rels)
    /\ share.fs_info.fs_type \in DOMAIN parsed_config
    /\ ~needs_mount(mounts, share)
    /\ unit_status' = "maintenance_mounting"
    /\ idx' = idx + 1
    /\ UNCHANGED <<env_vars, table, installed, disk_vars, app_status, table0,
                   pc, mounts, umounted, calls, outcome, fresh>>
    /\ UNCHANGED <<aborted, lab_vars>>

\* Lines 112-115: the record differs; umount the recorded mountpoint.
RemountUmount ==
    /\ pc = "with"
    /\ stale_kinds(mounts) = {}
    /\ idx <= Len(rels)
    /\ share.fs_info.fs_type \in DOMAIN parsed_config
    /\ needs_mount(mounts, share)
    /\ share.fs_info.fs_type \in DOMAIN mounts
    /\ ~umounted
    /\ unit_status' = "maintenance_mounting"
    /\ \E reload_ok \in BOOLEAN, rm_ok \in BOOLEAN :
          LET fs_type == share.fs_info.fs_type
              r == umount(Disk, mounts[fs_type].mountpoint, reload_ok, rm_ok)
          IN /\ master' = r.disk.master
             /\ automap' = r.disk.automap
             /\ dirs' = r.disk.dirs
             /\ calls' = Append(calls, Call("umount", mounts[fs_type].mountpoint,
                                            fs_type, FALSE))
             /\ IF r.raised = "no"
                THEN umounted' = TRUE /\ UNCHANGED <<pc, outcome>>
                ELSE /\ pc' = "done"
                     /\ outcome' = "error_umount"
                     /\ UNCHANGED umounted
    /\ table' = IF pc' = "done" THEN table_on_exception(mounts) ELSE table
    /\ UNCHANGED <<env_vars, installed, app_status, table0, mounts, idx, fresh>>
    /\ UNCHANGED <<aborted, lab_vars>>

\* Lines 112-117: mount the share and record it.
Mount ==
    /\ pc = "with"
    /\ stale_kinds(mounts) = {}
    /\ idx <= Len(rels)
    /\ share.fs_info.fs_type \in DOMAIN parsed_config
    /\ needs_mount(mounts, share)
    /\ share.fs_info.fs_type \notin DOMAIN mounts \/ umounted
    /\ unit_status' = "maintenance_mounting"
    /\ \E reload_ok \in BOOLEAN :
          LET fs_type == share.fs_info.fs_type
              options == options_of(share)
              r == mount(Disk, share.fs_info, options.mountpoint,
                         opts_of(options), reload_ok)
          IN /\ master' = r.disk.master
             /\ automap' = r.disk.automap
             /\ dirs' = r.disk.dirs
             /\ calls' = Append(calls, Call("mount", options.mountpoint,
                                            fs_type, FALSE))
             /\ IF r.raised = "no"
                THEN /\ mounts' = DictSet(mounts, fs_type, options)
                     /\ idx' = idx + 1
                     /\ UNCHANGED <<pc, outcome>>
                ELSE /\ pc' = "done"
                     /\ outcome' = IF r.raised = "Error" THEN "error_mount"
                                   ELSE "error_mkdir"
                     /\ UNCHANGED <<mounts, idx>>
    /\ umounted' = FALSE
    /\ table' = IF pc' = "done" THEN table_on_exception(mounts) ELSE table
    /\ UNCHANGED <<env_vars, installed, app_status, table0, fresh>>
    /\ UNCHANGED <<aborted, lab_vars>>

\* Lines 133 and 119: every share is reconciled; the dict is saved and the
\* unit goes active.
Finish ==
    /\ pc = "with"
    /\ stale_kinds(mounts) = {}
    /\ idx > Len(rels)
    /\ pc' = "done"
    /\ IF set_state_raises
       THEN /\ outcome' = "error_set_state"
            /\ UNCHANGED <<table, unit_status>>
       ELSE /\ outcome' = "active"
            /\ table' = json_dumps(mounts)
            /\ unit_status' = "active"
    /\ UNCHANGED <<env_vars, installed, disk_vars, app_status, table0,
                   loop_vars, calls, fresh>>
    /\ UNCHANGED <<aborted, lab_vars>>

\* The handler has returned or raised; the hook ends.
Return ==
    /\ pc = "done"
    /\ pc' = "idle"
    /\ fresh' = (outcome = "active")
    /\ aborted' = IF outcome \in {"error_umount", "error_mount", "error_mkdir"}
                  THEN TRUE
                  ELSE IF outcome = "active" THEN FALSE ELSE aborted
    /\ outcome' = "none"
    /\ calls' = <<>>
    /\ mounts' = EmptyDict
    /\ idx' = 0
    /\ umounted' = FALSE
    /\ unit_status' = "unknown"
    /\ app_status' = "unknown"
    /\ table0' = {}
    /\ UNCHANGED <<env_vars, table, installed, disk_vars>>
    /\ UNCHANGED lab_vars

----------------------------------------------------------------------------

Next ==
    \/ ConfigChanged
    \/ RelationJoined
    \/ RelationChanged
    \/ RelationDeparted
    \/ PeerRelationCreated
    \/ EnsureRaises
    \/ InvalidConfiguration
    \/ EndpointsRaises
    \/ TooManyRelations
    \/ EnterWith
    \/ CleanupUmount
    \/ MissingConfiguration
    \/ ShareUpToDate
    \/ RemountUmount
    \/ Mount
    \/ Finish
    \/ Return

Spec == Init /\ [][Next]_vars

----------------------------------------------------------------------------
(* The deployment of tests/integration/test_charm.py: the operator writes   *)
(* the options of the two filesystems under the keys `nfs` and `cephfs`.    *)

\* The keys of `mountinfo` in test_build_and_deploy (lines 55-66).
TestedKeys == {"nfs", "cephfs"}

ConfigsAsTested ==
    {[json_ok |-> FALSE, entries |-> EmptyDict]} \cup
    {[json_ok |-> TRUE, entries |-> e] :
        e \in UNION {[ks -> RawEntries] : ks \in SUBSET TestedKeys}}

\* juju config mountinfo=..., with the keys of the integration test.
ConfigChangedAsTested ==
    /\ pc = "idle"
    /\ \E c \in ConfigsAsTested : c # config /\ config' = c
    /\ fresh' = FALSE
    /\ UNCHANGED <<rels, peers, table, installed, disk_vars, unit_status,
                   app_status, table0, pc, loop_vars, calls, outcome>>
    /\ UNCHANGED <<aborted, lab_vars>>

NextAsTested ==
    \/ ConfigChangedAsTested
    \/ RelationJoined
    \/ RelationChanged
    \/ RelationDeparted
    \/ PeerRelationCreated
    \/ EnsureRaises
    \/ InvalidConfiguration
    \/ EndpointsRaises
    \/ TooManyRelations
    \/ EnterWith
    \/ CleanupUmount
    \/ MissingConfiguration
    \/ ShareUpToDate
    \/ RemountUmount
    \/ Mount
    \/ Finish
    \/ Return

SpecAsTested == Init /\ [][NextAsTested]_vars

TypeOK ==
    /\ pc \in {"idle", "with", "done"}
    /\ Len(rels) <= MaxRelations
    /\ DOMAIN master = DOMAIN automap

----------------------------------------------------------------------------
(* The URI codec of the interface library, called directly:                 *)
(* src/lib/charms/storage_client/v0/fs_interfaces.py, lines 143-489.        *)
(* A str is the sequence of its characters.  A call ends in a record:       *)
(* `raised` is "no" or the class of the exception that left the function,   *)
(* `value` what it returned.                                                *)

\* Longest host string given to _hostinfo.
MaxHostLen == 5

\* The characters of the host strings: a letter, a digit and the three
\* characters _hostinfo looks for.
HostAlphabet == {"h", "1", ":", "[", "]"}

\* Every str of at most n characters of the alphabet.
Strings(alphabet, n) == UNION {[1..k -> alphabet] : k \in 0..n}

Returned(v) == [raised |-> "no", value |-> v]
Raised(e) == [raised |-> e, value |-> <<>>]

RECURSIVE Find(_, _, _)
\* str.find(c, start): the Python (0-based) index of the first c at or
\* after start, or -1.
Find(str, c, start) ==
    IF start >= Len(str) THEN -1
    ELSE IF str[start + 1] = c THEN start
    ELSE Find(str, c, start + 1)

\* str[a:b] for 0 <= a, b <= len(str).
Slice(str, a, b) == SubSeq(str, a + 1, b)

RECURSIVE IntValue(_)
\* The value of a str of decimal digits.
IntValue(str) ==
    IF str = <<>> THEN 0
    ELSE 10 * IntValue(SubSeq(str, 1, Len(str) - 1))
         + (IF str[Len(str)] = "1" THEN 1 ELSE 0)

\* int(str) raises ValueError.
int_raises(str) == str = <<>> \/ \E i \in 1..Len(str) : str[i] \notin {"1"}

\* _hostinfo, lines 253-283.  Line 278 indexes `hostname`, not `host`, at
\* pos; a function that reaches the end of its body returns None, not the
\* port it parsed: here None reads as the empty tuple.
hostinfo(host) ==
    IF Len(host) = 0 THEN Raised("ParseError")
    ELSE
      LET bracket == host[1] = "["
          close == Find(host, "]", 0)
          colon == Find(host, ":", 0)
          hostname == IF bracket THEN Slice(host, 1, close)
                      ELSE IF colon = -1 THEN host
                      ELSE Slice(host, 0, colon)
          pos == IF bracket THEN close + 1
                 ELSE IF colon = -1 THEN Len(host) ELSE colon
      IN IF bracket /\ close = -1 THEN Raised("ParseError")
         ELSE IF pos = Len(host) THEN Returned(<<hostname, None>>)
         ELSE IF pos >= Len(hostname) THEN Raised("IndexError")
         ELSE IF hostname[pos + 1] # ":" THEN Raised("ParseError")
         ELSE IF int_raises(Slice(host, pos + 1, Len(host)))
         THEN Raised("ParseError")
         ELSE Returned(<<>>)

\* Two host strings of a URI: `h` and `h:1`.
H1 == <<"h">>
H2 == <<"h", ":", "1">>

\* The strs that ipaddress.IPv6Address accepts, among the hostnames used
\* here: `::1` and `1::1`.
IPv6Addresses == {<<":", ":", "1">>, <<"1", ":", ":", "1">>}

\* The components of a URI (the grammar of lines 149-181).  Scheme, user,
\* path and option values are only copied and compared: they are atoms.
Schemes == {"", "nfs", "ceph"}
HostLists == {<<>>, <<H1>>, <<H2, H1>>}
Users == {"", "u"}
Paths == {"/", "/srv"}
OptionKeys == {"name", "fsid", "auth"}
AuthValues == {"plain:KEY", "secret:ID", "token:X"}
OptionDicts ==
    {[k \in ks |-> IF k = "auth" THEN a ELSE "v"] :
        ks \in SUBSET OptionKeys, a \in AuthValues}

\* The values the fields of a _UriData can be given (lines 187-203).
RawUris ==
    [scheme : Schemes, hosts : HostLists, user : Users, path : Paths,
     options : {EmptyDict, [k \in OptionKeys |-> "v"]}]

\* The text of a URI, named by the components it spells out.
UriTexts ==
    [scheme : Schemes \ {""}, hosts : HostLists \ {<<>>}, user : Users,
     path : Paths, options : OptionDicts]

\* The NFS descriptors a provider may want to advertise (lines 322-329).
NfsInfos ==
    [hostname : {<<"h">>, <<"1">>} \cup IPv6Addresses,
     port : {None, Some(1)}, path : Paths]

\* _UriData.__init__, lines 205-216.  The class is a dataclass with
\* frozen=True (line 184): its __setattr__ raises FrozenInstanceError, so the
\* first assignment to self (line 212) raises once the two checks passed.
UriData_init(scheme, hosts, user, path, options) ==
    IF scheme = "" THEN Raised("FsInterfacesError")
    ELSE IF Len(hosts) = 0 THEN Raised("FsInterfacesError")
    ELSE Raised("FrozenInstanceError")

\* _UriData.from_uri, lines 218-243.  A classmethod whose only parameter is
\* `uri`: the class is bound to it, and a call with a URI passes one
\* positional argument too many, TypeError before the body runs.
UriData_from_uri(uri) == Raised("TypeError")

\* _UriData.__str__, lines 245-250.  Line 248 reads
\* `f"{user}@" if user else "" + f"({self.hostname})"`: with a user the
\* netloc is `user@` alone, without one it reads the attribute `hostname`
\* that no _UriData has.
UriData_str(self) ==
    IF self.user # ""
    THEN Returned([scheme |-> self.scheme, hosts |-> <<>>, user |-> self.user,
                   path |-> self.path, options |-> self.options])
    ELSE Raised("AttributeError")

\* NfsInfo(hostname=, port=, path=): FsInfo.grant is abstract (lines 304-311)
\* and NfsInfo (lines 319-367) does not define it; ABC refuses to
\* instantiate the class.
NfsInfo_init(hostname, port, path) == Raised("TypeError")

\* NfsInfo.from_uri, lines 331-352.
NfsInfo_from_uri(uri) ==
    LET info == UriData_from_uri(uri)
    IN IF info.raised # "no" THEN info
       ELSE IF info.value.scheme # "nfs" THEN Raised("ParseError")
       ELSE LET hp == hostinfo(info.value.hosts[1])
            IN IF hp.raised # "no" THEN hp
               ELSE IF hp.value = <<>> THEN Raised("TypeError")
               ELSE NfsInfo_init(hp.value[1], hp.value[2], info.value.path)

\* NfsInfo.to_uri, lines 354-363.  Line 361 reads
\* `[host + f":{self.port}" if self.port else ""]`: without a port the only
\* host is the empty str.
NfsInfo_to_uri(self) ==
    LET host == IF self.hostname \in IPv6Addresses
                THEN <<"[">> \o self.hostname \o <<"]">>
                ELSE self.hostname
        hosts == <<IF self.port # None
                   THEN host \o <<":">> \o <<"1">>
                   ELSE <<>> >>
        data == UriData_init("nfs", hosts, "", self.path, EmptyDict)
    IN IF data.raised # "no" THEN data ELSE UriData_str(data.value)

\* CephfsInfo.from_uri, lines 391-436.  Its first statement (line 393)
\* calls `_parse_uri`, a name the module never defines: NameError, whatever
\* the URI and whether or not the secret resolves.
CephfsInfo_from_uri(uri, secret_resolves) == Raised("NameError")

\* URI texts outside the grammar, named by what is wrong with them: e.g.
\* `://(h)/srv`, `nfs:///srv`, `nfs://h/srv` and `nfs://(h/srv`, `nfs://(h)`,
\* `nfs://(h)/srv?a&b`.
MalformedUris ==
    [defect : {"empty scheme", "missing host", "host without parentheses",
               "host with one parenthesis", "empty path", "bad options"},
     user : Users]

\* The argument of one direct call.
InitCodec ==
    /\ InitCharm
    /\ provider = NoProvider
    /\ \/ \E host \in Strings(HostAlphabet, MaxHostLen) :
             probe = [fn |-> "none", kind |-> "host", arg |-> host]
       \/ \E u \in RawUris :
             probe = [fn |-> "none", kind |-> "raw", arg |-> u]
       \/ \E d \in NfsInfos :
             probe = [fn |-> "none", kind |-> "nfs", arg |-> d]
       \/ \E t \in UriTexts, ok \in BOOLEAN :
             probe = [fn |-> "none", kind |-> "text",
                      arg |-> [uri |-> t, secret_resolves |-> ok]]
       \/ \E t \in MalformedUris :
             probe = [fn |-> "none", kind |-> "malformed", arg |-> t]

\* _hostinfo(host)
CallHostinfo ==
    /\ probe.fn = "none" /\ probe.kind = "host"
    /\ probe' = [fn |-> "_hostinfo", kind |-> "host", arg |-> probe.arg,
                 res |-> hostinfo(probe.arg)]
    /\ UNCHANGED <<charm_vars, provider>>

\* from_uri(to_uri(u)) for the raw URI value u: _UriData(...), str(), then
\* _UriData.from_uri.
RoundTripUri ==
    /\ probe.fn = "none" /\ probe.kind = "raw"
    /\ LET u == probe.arg
           data == UriData_init(u.scheme, u.hosts, u.user, u.path, u.options)
           text == IF data.raised # "no" THEN data ELSE UriData_str(data.value)
           back == IF text.raised # "no" THEN text
                   ELSE UriData_from_uri(text.value)
       IN probe' = [fn |-> "uri_round_trip", kind |-> "raw", arg |-> u,
                    res |-> back]
    /\ UNCHANGED <<charm_vars, provider>>

\* NfsInfo.from_uri(d.to_uri()) for the descriptor d = NfsInfo(...).
RoundTripNfs ==
    /\ probe.fn = "none" /\ probe.kind = "nfs"
    /\ LET d == probe.arg
           info == NfsInfo_init(d.hostname, d.port, d.path)
           text == IF info.raised # "no" THEN info ELSE NfsInfo_to_uri(info.value)
           back == IF text.raised # "no" THEN text
                   ELSE NfsInfo_from_uri(text.value)
       IN probe' = [fn |-> "nfs_round_trip", kind |-> "nfs", arg |-> d,
                    res |-> back]
    /\ UNCHANGED <<charm_vars, provider>>

\* NfsInfo.from_uri(uri, model)
DecodeNfs ==
    /\ probe.fn = "none" /\ probe.kind = "text"
    /\ probe' = [fn |-> "NfsInfo.from_uri", kind |-> "text", arg |-> probe.arg,
                 res |-> NfsInfo_from_uri(probe.arg.uri)]
    /\ UNCHANGED <<charm_vars, provider>>

\* CephfsInfo.from_uri(uri, model)
DecodeCephfs ==
    /\ probe.fn = "none" /\ probe.kind = "text"
    /\ probe' = [fn |-> "CephfsInfo.from_uri", kind |-> "text",
                 arg |-> probe.arg,
                 res |-> CephfsInfo_from_uri(probe.arg.uri,
                                             probe.arg.secret_resolves)]
    /\ UNCHANGED <<charm_vars, provider>>

\* _UriData.from_uri(uri) for a text outside the grammar.
ParseMalformed ==
    /\ probe.fn = "none" /\ probe.kind = "malformed"
    /\ probe' = [fn |-> "_UriData.from_uri", kind |-> "malformed",
                 arg |-> probe.arg, res |-> UriData_from_uri(probe.arg)]
    /\ UNCHANGED <<charm_vars, provider>>

NextCodec ==
    \/ ParseMalformed
    \/ CallHostinfo
    \/ RoundTripUri
    \/ RoundTripNfs
    \/ DecodeNfs
    \/ DecodeCephfs

SpecCodec == InitCodec /\ [][NextCodec]_vars

----------------------------------------------------------------------------
(* Direct calls of the manager: src/src/utils/manager.py *)

\* Mountpoints handed to the manager: one written two ways, and two whose
\* autofs ids coincide.
MP_A_SLASH == <<"/", "a", "/">>
MP_A_B == <<"/", "a", "/", "b">>
MP_A_DASH_B == <<"/", "a", "-", "b">>
ManagerMountpoints == {MP_A, MP_A_SLASH, MP_A_B, MP_A_DASH_B}

\* Descriptors handed to the manager: NFS with an IPv6 host and a port, NFS
\* with a host name and no port, CephFS with two monitors, and a descriptor
\* of neither class.
ManagerInfos ==
    { [fs_type |-> "nfs", hostname |-> "::1", port |-> Some(2049),
       path |-> "/srv"],
      [fs_type |-> "nfs", hostname |-> "h1", port |-> None, path |-> "/srv"],
      [fs_type |-> "ceph", fsid |-> "fsid", name |-> "name",
       path |-> "/export", monitor_hosts |-> <<"m1", "m2">>, user |-> "user",
       key |-> "key"],
      [fs_type |-> "lustre"] }

\* Options a caller passes.
ManagerOptions == {<<>>, <<"noexec", "ro">>}

\* What systemd.service_reload does: it returns, or raises a SystemdError
\* with one of two texts.
ReloadOutcomes == {"ok", "Operation not permitted", "Job failed"}

\* What systemd-detect-virt reports.
VirtOutcomes == {"lxc", "kvm", "failed"}

\* No call yet.
InitManager ==
    /\ InitCharm
    /\ provider = NoProvider
    /\ probe = [fn |-> "none", mountpoint |-> <<>>, reload_ok |-> FALSE,
                rm_ok |-> FALSE, raised |-> "no", before |-> Disk,
                repeat |-> FALSE]

\* MountsManager.mount(share_info, mountpoint, options).  `raced`: another
\* actor created the directory of the mountpoint just before the call.
MgrMount ==
    \E share_info \in ManagerInfos, mountpoint \in ManagerMountpoints,
       options \in ManagerOptions, reload_ok \in BOOLEAN :
        LET r == mount(Disk, share_info, mountpoint, options, reload_ok)
        IN /\ master' = r.disk.master
           /\ automap' = r.disk.automap
           /\ dirs' = r.disk.dirs
           /\ probe' = [fn |-> "mount", share_info |-> share_info,
                        mountpoint |-> mountpoint, options |-> options,
                        reload_ok |-> reload_ok, rm_ok |-> FALSE,
                        raised |-> r.raised, before |-> Disk,
                        repeat |-> FALSE,
                        raced |-> /\ probe.fn = "mkdir"
                                  /\ probe.mountpoint = Resolve(mountpoint)]
           /\ UNCHANGED <<config, rels, peers, table, installed, unit_status,
                          app_status, table0, pc, loop_vars, calls, outcome,
                          fresh, aborted, provider>>

\* MountsManager.umount(mountpoint).  `repeat`: the call before this one was
\* a umount of the same mountpoint that returned, and shutil.rmtree meets
\* the same conditions as it did then.
MgrUmount ==
    \E mountpoint \in ManagerMountpoints, reload_ok \in BOOLEAN,
       rm_ok \in BOOLEAN :
        LET r == umount(Disk, mountpoint, reload_ok, rm_ok)
        IN /\ master' = r.disk.master
           /\ automap' = r.disk.automap
           /\ dirs' = r.disk.dirs
           /\ probe' = [fn |-> "umount", mountpoint |-> mountpoint,
                        reload_ok |-> reload_ok, rm_ok |-> rm_ok,
                        raised |-> r.raised, before |-> Disk,
                        repeat |-> /\ probe.fn = "umount"
                                   /\ probe.mountpoint = mountpoint
                                   /\ probe.raised = "no"
                                   /\ probe.rm_ok = rm_ok]
           /\ UNCHANGED <<config, rels, peers, table, installed, unit_status,
                          app_status, table0, pc, loop_vars, calls, outcome,
                          fresh, aborted, provider>>

\* Another actor of the machine creates a directory that mount is about to
\* create with target.mkdir() (line 168).
OtherActorMkdir ==
    \E path \in {Resolve(m) : m \in ManagerMountpoints} :
        /\ path \notin dirs
        /\ DirExists(Parent(path), dirs)
        /\ dirs' = dirs \cup {path}
        /\ probe' = [fn |-> "mkdir", mountpoint |-> path, reload_ok |-> FALSE,
                     rm_ok |-> FALSE, raised |-> "no", before |-> Disk,
                     repeat |-> FALSE]
        /\ UNCHANGED <<config, rels, peers, table, installed, master, automap,
                       unit_status, app_status, table0, pc, loop_vars, calls,
                       outcome, fresh, aborted, provider>>

NextManager ==
    \/ MgrMount
    \/ MgrUmount
    \/ OtherActorMkdir

SpecManager == InitManager /\ [][NextManager]_vars

\* The descriptors of the calls whose reload of autofs may fail.
ReloadInfos == {i \in ManagerInfos : i.fs_type \in {"lustre"} \/
                                     (i.fs_type = "nfs" /\ i.port = None)}

\* MountsManager.mount(share_info, mountpoint) on a machine where the reload
\* of autofs ends as `reload` and systemd-detect-virt as `virt`.  `message`
\* is the text of the Error raised.
MgrMountReload ==
    \E share_info \in ReloadInfos, mountpoint \in ManagerMountpoints,
       reload \in ReloadOutcomes, virt \in VirtOutcomes :
        LET r == mount(Disk, share_info, mountpoint, <<>>, reload = "ok")
        IN /\ master' = r.disk.master
           /\ automap' = r.disk.automap
           /\ dirs' = r.disk.dirs
           /\ probe' = [fn |-> "mount", share_info |-> share_info,
                        mountpoint |-> mountpoint, options |-> <<>>,
                        reload_ok |-> reload = "ok", rm_ok |-> FALSE,
                        raised |-> r.raised, before |-> Disk,
                        repeat |-> FALSE, raced |-> FALSE,
                        reload |-> reload, virt |-> virt,
                        message |->
                            IF r.raised # "Error" THEN ""
                            ELSE IF get_endpoint_and_opts(share_info).raised # "no"
                            THEN "unsupported filesystem type"
                            ELSE mount_error(reload, virt)]
           /\ UNCHANGED <<config, rels, peers, table, installed, unit_status,
                          app_status, table0, pc, loop_vars, calls, outcome,
                          fresh, aborted, provider>>

\* The descriptors _get_endpoint_and_opts is given: NfsInfo, CephfsInfo, and
\* a FsInfo of neither class.
EndpointInfos ==
    [fs_type : {"nfs"}, hostname : {"h1", "10.0.0.1", "::1"},
     port : {None, Some(0), Some(2049)}, path : {"/", "/srv"}]
    \cup [fs_type : {"ceph"}, fsid : {"f1", "f2"}, name : {"name"},
          path : {"/", "/export"},
          monitor_hosts : {<<"m1">>, <<"m1", "m2">>, <<"m1", "m2", "m3">>},
          user : {"u1", "u2"}, key : {"k1", "k2"}]
    \cup {[fs_type |-> "lustre"]}

\* The descriptor of one call.
InitEndpoint ==
    /\ InitCharm
    /\ provider = NoProvider
    /\ \E info \in EndpointInfos : probe = [fn |-> "none", info |-> info]

\* _get_endpoint_and_opts(info)
CallGetEndpointAndOpts ==
    /\ probe.fn = "none"
    /\ probe' = [fn |-> "_get_endpoint_and_opts", info |-> probe.info,
                 res |-> get_endpoint_and_opts(probe.info)]
    /\ UNCHANGED <<charm_vars, provider>>

NextEndpoint ==
    \/ CallGetEndpointAndOpts

SpecEndpoint == InitEndpoint /\ [][NextEndpoint]_vars

NextMountFailure ==
    \/ MgrMountReload
    \/ MgrUmount

SpecMountFailure == InitManager /\ [][NextMountFailure]_vars

----------------------------------------------------------------------------
(* The provider side: FsProvides, fs_interfaces.py lines 576-641 *)

MaxProviderRelations == 2
MaxRevision == 3

\* URIs that the to_uri of a FsInfo subclass of the providing charm returns.
OtherUris == {[scheme |-> "lustre", host |-> "h1"],
              [scheme |-> "nfs", host |-> "h1"]}

\* The descriptors a providing charm hands to set_fs_info.  The two classes
\* of the library leave `grant` abstract, so an instance is of a subclass
\* that defines it: of NfsInfo, of CephfsInfo, or of FsInfo itself with its
\* own to_uri.
ProviderInfos ==
    {[kind |-> "nfs", hostname |-> <<"h">>, port |-> Some(1), path |-> "/srv"]}
    \cup {[kind |-> "ceph", key |-> k] : k \in {"k1", "k2"}}
    \cup {[kind |-> "other", uri |-> u] : u \in OtherUris}

\* CephfsInfo._get_or_create_auth_secret, lines 460-470.  add_ok: whether
\* Application.add_secret accepts the str it is given as content.
get_or_create_auth_secret(secrets, key, add_ok) ==
    IF "auth" \in DOMAIN secrets
    THEN [secrets |-> DictSet(secrets, "auth",
                             [secrets["auth"] EXCEPT
                                !.content = key,
                                !.revision = secrets["auth"].revision + 1]),
          raised |-> "no"]
    ELSE IF add_ok
    THEN [secrets |-> DictSet(secrets, "auth",
                             [id |-> "secret:1", content |-> key,
                              revision |-> 1, grants |-> {}]),
          raised |-> "no"]
    ELSE [secrets |-> secrets, raised |-> "TypeError"]

\* fs_info.to_uri(model): NfsInfo.to_uri (lines 354-363), CephfsInfo.to_uri
\* (lines 438-448), or the method of the charm's own class.
to_uri(secrets, fs_info, add_ok) ==
    IF fs_info.kind = "nfs"
    THEN LET r == NfsInfo_to_uri(fs_info)
         IN [secrets |-> secrets, raised |-> r.raised, value |-> r.value]
    ELSE IF fs_info.kind = "ceph"
    THEN LET g == get_or_create_auth_secret(secrets, fs_info.key, add_ok)
             options == [k \in {"fsid", "name", "auth", "auth-rev"} |->
                           IF k = "auth" THEN g.secrets["auth"].id
                           ELSE IF k = "auth-rev"
                           THEN ToString(g.secrets["auth"].revision)
                           ELSE "v"]
             r == UriData_init("ceph", <<H1>>, "u", "/srv", options)
         IN IF g.raised # "no"
            THEN [secrets |-> g.secrets, raised |-> g.raised, value |-> <<>>]
            ELSE [secrets |-> g.secrets, raised |-> r.raised, value |-> r.value]
    ELSE [secrets |-> secrets, raised |-> "no", value |-> fs_info.uri]

\* fs_info.grant(model, relation): CephfsInfo.grant (lines 450-454) names
\* `secret`, which it never binds; the other classes have no secret.
grant(secrets, fs_info, relation, add_ok) ==
    IF fs_info.kind = "ceph"
    THEN LET g == get_or_create_auth_secret(secrets, fs_info.key, add_ok)
         IN [secrets |-> g.secrets,
             raised |-> IF g.raised # "no" THEN g.raised ELSE "NameError"]
    ELSE [secrets |-> secrets, raised |-> "no"]

RECURSIVE publish(_, _, _, _, _)
\* The loop of set_fs_info, lines 600-602, over the relations `todo`.
\* `granted` keeps the calls of grant that returned: the relation and the
\* URI of the descriptor.
publish(p, fs_info, uri, todo, add_ok) ==
    IF todo = {} THEN [provider |-> p, raised |-> "no"]
    ELSE LET relation == CHOOSE r \in todo : \A o \in todo : r <= o
             g == grant(p.secrets, fs_info, relation, add_ok)
         IN IF g.raised # "no"
            THEN [provider |-> [p EXCEPT !.secrets = g.secrets],
                  raised |-> g.raised]
            ELSE publish([p EXCEPT !.secrets = g.secrets,
                                   !.granted = @ \cup {<<relation, uri>>},
                                   !.databags[relation] =
                                       DictSet(@, "endpoint", uri)],
                         fs_info, uri, todo \ {relation}, add_ok)

RECURSIVE publish_ungranted(_, _, _, _, _)
\* The loop of set_fs_info without line 601.
publish_ungranted(p, fs_info, uri, todo, add_ok) ==
    IF todo = {} THEN [provider |-> p, raised |-> "no"]
    ELSE LET relation == CHOOSE r \in todo : \A o \in todo : r <= o
         IN publish_ungranted([p EXCEPT !.databags[relation] =
                                           DictSet(@, "endpoint", uri)],
                              fs_info, uri, todo \ {relation}, add_ok)

\* set_fs_info without the call of grant.
set_fs_info_ungranted(p, fs_info, add_ok) ==
    IF ~p.leader THEN [provider |-> p, raised |-> "no"]
    ELSE LET u == to_uri(p.secrets, fs_info, add_ok)
             p1 == [p EXCEPT !.secrets = u.secrets]
         IN IF u.raised # "no" THEN [provider |-> p1, raised |-> u.raised]
            ELSE IF ~p.peers
            THEN [provider |-> p1, raised |-> "FsInterfacesError"]
            ELSE publish_ungranted([p1 EXCEPT !.peer_data =
                                      DictSet(@, "endpoint", u.value)],
                                   fs_info, u.value, DOMAIN p.databags, add_ok)

\* set_fs_info without the test of lines 593-594.
set_fs_info_any_unit(p, fs_info, add_ok) ==
    LET u == to_uri(p.secrets, fs_info, add_ok)
        p1 == [p EXCEPT !.secrets = u.secrets]
    IN IF u.raised # "no" THEN [provider |-> p1, raised |-> u.raised]
       ELSE IF ~p.peers THEN [provider |-> p1, raised |-> "FsInterfacesError"]
       ELSE publish([p1 EXCEPT !.peer_data =
                                 DictSet(@, "endpoint", u.value)],
                    fs_info, u.value, DOMAIN p.databags, add_ok)

\* FsProvides.set_fs_info, lines 584-602; the setter of _endpoint is
\* _set_state, lines 634-641.
set_fs_info(p, fs_info, add_ok) ==
    IF ~p.leader THEN [provider |-> p, raised |-> "no"]
    ELSE LET u == to_uri(p.secrets, fs_info, add_ok)
             p1 == [p EXCEPT !.secrets = u.secrets]
         IN IF u.raised # "no" THEN [provider |-> p1, raised |-> u.raised]
            ELSE IF ~p.peers
            THEN [provider |-> p1, raised |-> "FsInterfacesError"]
            ELSE publish([p1 EXCEPT !.peer_data =
                                      DictSet(@, "endpoint", u.value)],
                         fs_info, u.value, DOMAIN p.databags, add_ok)

\* _uri_to_share_info on the provider, lines 482-489: the decoders of the
\* library, or FsInterfacesError for another scheme.
provider_uri_to_share_info(uri) ==
    IF uri.scheme = "nfs" THEN NfsInfo_from_uri(uri)
    ELSE IF uri.scheme = "ceph" THEN CephfsInfo_from_uri(uri, TRUE)
    ELSE Raised("FsInterfacesError")

\* FsProvides._update_relation, lines 604-611, for the relation that joined.
\* _endpoint reads the peer state (lines 618-632).
update_relation(p, relation, add_ok) ==
    LET published == p.peers /\ "endpoint" \in DOMAIN p.peer_data
    IN IF ~p.leader \/ ~published
       THEN [provider |-> p, raised |-> "no"]
       ELSE [provider |-> p,
             raised |->
                provider_uri_to_share_info(p.peer_data["endpoint"]).raised]

\* A provider unit before any hook ran.
InitProvider ==
    /\ InitCharm
    /\ provider = [unit |-> "provider", leader |-> FALSE, peers |-> FALSE,
                   peer_data |-> EmptyDict, databags |-> EmptyDict,
                   secrets |-> EmptyDict, granted |-> {},
                   last |-> [called |-> FALSE, uri |-> {}]]
    /\ probe = [fn |-> "none", before |-> provider, raised |-> "no"]

\* The providing charm calls set_fs_info.  `last` keeps, for the most recent
\* call handled by a leader whose peer relation exists, the URI that to_uri
\* returned, if it returned.
SetFsInfo ==
    \E fs_info \in ProviderInfos, add_ok \in BOOLEAN :
        LET r == set_fs_info(provider, fs_info, add_ok)
        IN /\ \A l \in DOMAIN r.provider.secrets :
                 r.provider.secrets[l].revision <= MaxRevision
           /\ provider' =
                 [r.provider EXCEPT !.last =
                    IF ~provider.leader \/ ~provider.peers THEN @
                    ELSE LET u == to_uri(provider.secrets, fs_info, add_ok)
                         IN [called |-> TRUE,
                             uri |-> IF u.raised = "no" THEN {u.value}
                                     ELSE {}]]
           /\ probe' = [fn |-> "set_fs_info", fs_info |-> fs_info,
                        before |-> provider, raised |-> r.raised,
                        uri |-> IF provider.leader
                                THEN to_uri(provider.secrets, fs_info, add_ok)
                                ELSE [secrets |-> provider.secrets,
                                      raised |-> "not called", value |-> <<>>]]
           /\ UNCHANGED charm_vars

\* A consumer joins the relation: relation_joined runs _update_relation.
ProviderRelationJoined ==
    \E relation \in 1..MaxProviderRelations, add_ok \in BOOLEAN :
        /\ relation \notin DOMAIN provider.databags
        /\ LET joined == [provider EXCEPT !.databags =
                             DictSet(@, relation, EmptyDict)]
               r == update_relation(joined, relation, add_ok)
           IN /\ provider' = r.provider
              /\ probe' = [fn |-> "relation_joined", relation |-> relation,
                           before |-> provider, raised |-> r.raised]
        /\ UNCHANGED charm_vars

\* Juju creates the peer relation of the providing application.
ProviderPeersCreated ==
    /\ ~provider.peers
    /\ provider' = [provider EXCEPT !.peers = TRUE]
    /\ probe' = [fn |-> "peers_created", before |-> provider, raised |-> "no"]
    /\ UNCHANGED charm_vars

\* The unit gains or loses the leadership of the application.
ProviderLeaderChanged ==
    /\ provider' = [provider EXCEPT !.leader = ~@]
    /\ probe' = [fn |-> "leader_changed", before |-> provider,
                 raised |-> "no"]
    /\ UNCHANGED charm_vars

NextProvider ==
    \/ SetFsInfo
    \/ ProviderRelationJoined
    \/ ProviderPeersCreated
    \/ ProviderLeaderChanged

SpecProvider == InitProvider /\ [][NextProvider]_vars

----------------------------------------------------------------------------
(* The transaction differ: spec.md section 4.3 *)

MaxValue == 4
SnapshotKeys == {"a", "b", "c"}

\* Snapshots of shared key-value data.
Snapshots == UNION {[ks -> 1..MaxValue] : ks \in SUBSET SnapshotKeys}

\* diff with `changed` holding only the keys of both snapshots whose values
\* differ.
diff_without_added(cached, new) ==
    [added |-> DOMAIN new \ DOMAIN cached,
     deleted |-> DOMAIN cached \ DOMAIN new,
     changed |-> {k \in DOMAIN cached \cap DOMAIN new : cached[k] # new[k]}]

\* diff(cachedSnapshot, newSnapshot) -> Transaction
diff(cached, new) ==
    LET added == DOMAIN new \ DOMAIN cached
    IN [added |-> added,
        deleted |-> DOMAIN cached \ DOMAIN new,
        changed |-> added \cup {k \in DOMAIN cached \cap DOMAIN new :
                                   cached[k] # new[k]}]

\* The two snapshots of one call.
InitDiff ==
    /\ InitCharm
    /\ provider = NoProvider
    /\ \E cached \in Snapshots, new \in Snapshots :
          probe = [fn |-> "none", cached |-> cached, new |-> new]

\* diff(cached, new)
CallDiff ==
    /\ probe.fn = "none"
    /\ probe' = [fn |-> "diff", cached |-> probe.cached, new |-> probe.new,
                 res |-> diff(probe.cached, probe.new)]
    /\ UNCHANGED <<charm_vars, provider>>

NextDiff ==
    \/ CallDiff

SpecDiff == InitDiff /\ [][NextDiff]_vars

----------------------------------------------------------------------------
(* Vocabulary of the properties *)

\* The handler is running or has just ended.
InPass == pc \in {"with", "done"}

\* Outcomes of a pass that an exception ended.
ErrorOutcomes ==
    {"error_ensure", "error_endpoints", "error_umount", "error_mount",
     "error_mkdir", "error_set_state"}

\* Outcomes of a pass that a call of the manager ended.
ManagerErrors == {"error_umount", "error_mount", "error_mkdir"}

BlockedStatuses ==
    {"blocked_invalid_configuration", "blocked_too_many_relations",
     "blocked_missing_configuration"}

\* Relation i advertises a descriptor that parses.
Parses(i) ==
    IF "endpoint" \notin DOMAIN rels[i] THEN FALSE
    ELSE rels[i].endpoint.scheme \in Kinds /\ rels[i].endpoint.host # ""

\* Every relation advertises a descriptor and every descriptor parses.
AllParse == \A i \in 1..Len(rels) : Parses(i)

\* The kind of the descriptor of relation i.
KindOf(i) == rels[i].endpoint.scheme

\* Two relations advertise the same kind.
DuplicateKind ==
    \E i, j \in 1..Len(rels) : i < j /\ KindOf(i) = KindOf(j)

\* The record the descriptor of relation i asks for: the configured options of
\* its kind, defaults filled in, with the advertised URI.
Desired(i) ==
    LET e == config.entries[KindOf(i)]
    IN [mountpoint |-> e.mountpoint,
        noexec |-> "noexec" \in e.flags, nosuid |-> "nosuid" \in e.flags,
        nodev |-> "nodev" \in e.flags, read_only |-> "read-only" \in e.flags,
        uri |-> rels[i].endpoint]

\* The records of a persisted table, by kind.
Records(t) == [k \in {m[1] : m \in t} |-> (CHOOSE m \in t : m[1] = k)[2]]

\* Kind k has the record r in the persisted table t.
HasRecord(t, k, r) == <<k, r>> \in t

\* The pass has called op on mountpoint for kind k.
Called(op, mountpoint, k) ==
    \E j \in 1..Len(calls) :
        calls[j].op = op /\ calls[j].mountpoint = mountpoint /\ calls[j].kind = k

\* The map files on disk that were written for kind k.
MapsOfKind(am, k) == {id \in DOMAIN am : am[id].share_info.fs_type = k}

\* At most one map file per kind.
OneMapPerKind(am) == \A k \in Kinds : Cardinality(MapsOfKind(am, k)) <= 1

----------------------------------------------------------------------------
(* Properties *)

\* C1: a pass that starts right after a pass that ended Active, with the same
\* relation data and the same configuration, calls neither mount nor umount,
\* ends Active too and leaves the persisted mount table as it was.
C1_SecondPassIdle ==
    (fresh /\ InPass) =>
        /\ calls = <<>>
        /\ table = table0
        /\ pc = "done" => outcome = "active"

\* A second pass over unchanged inputs has ended, with a share recorded.
C1_Witness ==
    /\ fresh /\ pc = "done" /\ outcome = "active"
    /\ Len(rels) >= 1 /\ table # {}

\* C2: when MountsManager.mount or MountsManager.umount raises, the pass ends
\* at once and the persisted mount table is the one the pass started with;
\* inside the with block the persisted table is never written.
C2_ErrorKeepsTable ==
    /\ pc = "with" => (outcome = "none" /\ table = table0)
    /\ outcome \in ManagerErrors => (pc = "done" /\ table = table0)

\* mount raised after the pass had dropped the record of a stale kind: the
\* dict differs from the persisted table, which was not written.
C2_Witness ==
    /\ pc = "done" /\ outcome = "error_mount"
    /\ \E j \in 1..Len(calls) : calls[j].op = "umount" /\ calls[j].stale
    /\ table0 # {}
    /\ json_dumps(mounts) # table0

\* C3 (as claimed): the persisted mount table is written only by a pass that
\* ran to completion; a pass that stops earlier, also one that stops on a
\* kind without configuration, writes nothing.
C3_OnlyCompletedPassWrites ==
    (pc = "done" /\ table # table0) => outcome = "active"

\* The cleanup umounts of line 89 all come before the first mount.
StaleUmountsFirst(cs) ==
    \A i, j \in 1..Len(cs) :
        (cs[i].op = "mount" /\ cs[j].op = "umount" /\ cs[j].stale) => j < i

\* C4 (as claimed): in a pass every umount of a stale kind comes before the
\* first mount, and no step of the pass brings a second map file of a kind
\* onto a disk that held at most one map file per kind.
C4_NoSecondMapInPass ==
    [][pc = "with" =>
          /\ StaleUmountsFirst(calls')
          /\ OneMapPerKind(automap) => OneMapPerKind(automap')]_vars

\* C5: when a pass has ended Active, every kind that had a record when the
\* pass started and that no relation advertises has seen umount called on the
\* mountpoint of that record, and has no record in the persisted table.
C5_StaleKindTornDown ==
    (pc = "done" /\ outcome = "active") =>
        \A k \in DOMAIN Records(table0) :
            (\A i \in 1..Len(rels) : KindOf(i) # k) =>
                /\ Called("umount", Records(table0)[k].mountpoint, k)
                /\ \A m \in table : m[1] # k

\* A pass has ended Active after the umount of a stale kind.
C5_Witness ==
    /\ pc = "done" /\ outcome = "active"
    /\ \E j \in 1..Len(calls) : calls[j].op = "umount" /\ calls[j].stale

\* C6 (as claimed): in every reachable state the persisted table holds at most
\* one record per kind and the map files on disk written for a kind belong to
\* at most one mountpoint.
C6_OneLiveMountPerKind ==
    /\ \A m1, m2 \in table : m1[1] = m2[1] => m1 = m2
    /\ \A k \in Kinds :
          Cardinality({automap[id].mountpoint : id \in MapsOfKind(automap, k)}) <= 1

C8_OtherKindsReconciled ==
    (pc = "done" /\ outcome # "error_ensure" /\ config.json_ok
        /\ (\A i \in 1..Len(rels) : "endpoint" \in DOMAIN rels[i])
        /\ (\E i \in 1..Len(rels) : ~Parses(i))) =>
        /\ \A j \in 1..Len(rels) :
              (/\ Parses(j)
               /\ \A i \in 1..Len(rels) : i # j => KindOf(i) # KindOf(j)
               /\ KindOf(j) \in DOMAIN config.entries
               /\ ~HasRecord(table0, KindOf(j), Desired(j)))
              => Called("mount", Desired(j).mountpoint, KindOf(j))
        /\ \A k \in DOMAIN Records(table0) :
              (\A i \in 1..Len(rels) : KindOf(i) # k) =>
                  Called("umount", Records(table0)[k].mountpoint, k)

\* C9: when a pass has ended Active, every advertised descriptor whose kind
\* had no record, or a record that differs from the desired one (options or
\* URI), was mounted at the configured mountpoint, right after an umount of
\* the recorded mountpoint if there was a record; and the persisted record of
\* every advertised kind is the desired one.
C9_ChangedShareRemounted ==
    (pc = "done" /\ outcome = "active") =>
        \A i \in 1..Len(rels) :
            /\ HasRecord(table, KindOf(i), Desired(i))
            /\ ~HasRecord(table0, KindOf(i), Desired(i)) =>
                  \E j \in 1..Len(calls) :
                      /\ calls[j] = Call("mount", Desired(i).mountpoint,
                                         KindOf(i), FALSE)
                      /\ KindOf(i) \in DOMAIN Records(table0) =>
                            /\ j > 1
                            /\ calls[j - 1] =
                                 Call("umount",
                                      Records(table0)[KindOf(i)].mountpoint,
                                      KindOf(i), FALSE)

\* A pass has ended Active after a remount at the same mountpoint: the
\* configured options of a kind fix its mountpoint, so only the URI changed.
C9_Witness ==
    /\ pc = "done" /\ outcome = "active"
    /\ \E j \in 1..Len(calls), m \in table0 :
          /\ j > 1
          /\ calls[j].op = "mount" /\ calls[j - 1].op = "umount"
          /\ ~calls[j - 1].stale
          /\ calls[j].kind = calls[j - 1].kind
          /\ calls[j].mountpoint = calls[j - 1].mountpoint
          /\ m[1] = calls[j].kind
          /\ m[2].uri # Records(table)[m[1]].uri
          /\ [m[2] EXCEPT !.uri = Records(table)[m[1]].uri] = Records(table)[m[1]]

IdsOfTable(t) == {mountpoint_to_autofs_id(m[2].mountpoint) : m \in t}

\* C11 (as claimed): when a pass ends Active after a pass that a mount or
\* umount error aborted, the autofs master and map files on disk are exactly
\* those of the mountpoints recorded in the persisted table.
C11_CleanAfterAbort ==
    (aborted /\ pc = "done" /\ outcome = "active") =>
        /\ DOMAIN automap = IdsOfTable(table)
        /\ DOMAIN master = IdsOfTable(table)

\* C12 (as claimed): with one NFS and one CephFS descriptor advertised and
\* options configured under the keys `nfs` and `cephfs`, a pass that no
\* exception ends is Active and has recorded both kinds at their configured
\* mountpoints.
C12_CephfsKeyReconciled ==
    (/\ pc = "done" /\ outcome \notin ErrorOutcomes
     /\ config.json_ok /\ DOMAIN config.entries = {"nfs", "cephfs"}
     /\ Len(rels) = 2 /\ AllParse
     /\ {KindOf(1), KindOf(2)} = {"nfs", "ceph"}) =>
        /\ outcome = "active"
        /\ \E m \in table :
              m[1] = "nfs" /\ m[2].mountpoint = config.entries["nfs"].mountpoint
        /\ \E m \in table :
              m[2].mountpoint = config.entries["cephfs"].mountpoint
              /\ m[2].uri.scheme = "ceph"

\* Host names and IPv4 addresses, IPv6 literals, and ports, as strs.
HostNames == Strings({"h", "1"}, MaxHostLen) \ {<<>>}
V6Literals == Strings({"1", ":"}, MaxHostLen) \ {<<>>}
Ports == Strings({"1"}, MaxHostLen) \ {<<>>}

\* C15 (as claimed): _hostinfo returns (hostname, None) for a bare hostname or
\* IPv4 address and for a bracketed IPv6 literal, brackets stripped, and
\* (hostname, port) with the integer port when `:port` follows.
C15_HostinfoParses ==
    probe.fn = "_hostinfo" =>
        /\ \A n \in HostNames :
              /\ probe.arg = n => probe.res = Returned(<<n, None>>)
              /\ \A p \in Ports :
                    probe.arg = n \o <<":">> \o p =>
                        probe.res = Returned(<<n, Some(IntValue(p))>>)
        /\ \A a \in V6Literals :
              /\ probe.arg = <<"[">> \o a \o <<"]">> =>
                    probe.res = Returned(<<a, None>>)
              /\ \A p \in Ports :
                    probe.arg = <<"[">> \o a \o <<"]", ":">> \o p =>
                        probe.res = Returned(<<a, Some(IntValue(p))>>)

\* C13 (as claimed): for every valid raw URI value u (scheme and host list
\* not empty), parsing the text of u gives u back, with scheme, hosts in
\* order, user, path and options.
C13_UriRoundTrip ==
    (probe.fn = "uri_round_trip" /\ probe.arg.scheme # ""
        /\ probe.arg.hosts # <<>>) =>
        /\ probe.res.raised = "no"
        /\ probe.res.value = probe.arg

\* C14 (as claimed): for every NFS descriptor d (hostname a name, an IPv4
\* address or an IPv6 literal, port present or absent), decoding the URI that
\* encodes d gives d back.
C14_NfsRoundTrip ==
    probe.fn = "nfs_round_trip" =>
        /\ probe.res.raised = "no"
        /\ probe.res.value = probe.arg

\* C16 (as claimed): decoding an nfs URI with one or more hosts returns the
\* descriptor of the first host's hostname and port and the URI path,
\* whatever the other hosts, the user and the options are.
C16_NfsDecodeFirstHost ==
    (probe.fn = "NfsInfo.from_uri" /\ probe.arg.uri.scheme = "nfs") =>
        /\ probe.res.raised = "no"
        /\ probe.res.value =
             [hostname |-> H1,
              port |-> IF probe.arg.uri.hosts[1] = H2 THEN Some(1) ELSE None,
              path |-> probe.arg.uri.path]

\* The kind of an `auth` option: the text before the first colon.
AuthKind(a) ==
    IF a = "plain:KEY" THEN "plain" ELSE IF a = "secret:ID" THEN "secret"
    ELSE "token"

\* C17 (as claimed): decoding a ceph URI without user, without one of the
\* options name, fsid and auth, with an auth kind that is neither secret nor
\* plain, or with a secret that does not resolve, raises ParseError and
\* nothing else.
C17_CephfsDecodeParseError ==
    (probe.fn = "CephfsInfo.from_uri" /\ probe.arg.uri.scheme = "ceph") =>
        LET t == probe.arg.uri
            incomplete ==
                \/ t.user = ""
                \/ OptionKeys \ DOMAIN t.options # {}
            bad_auth ==
                IF "auth" \notin DOMAIN t.options THEN FALSE
                ELSE \/ AuthKind(t.options["auth"]) \notin {"secret", "plain"}
                     \/ /\ AuthKind(t.options["auth"]) = "secret"
                        /\ ~probe.arg.secret_resolves
        IN (incomplete \/ bad_auth) => probe.res.raised = "ParseError"

----------------------------------------------------------------------------
(* C18 *)

\* The state of the files the manager writes, after the call under `probe`.
DiskUnchanged == Disk = probe.before

\* The control files and the directory of the mountpoint were absent when
\* the call under `probe` was made.
NothingToUmount ==
    LET autofs_id == mountpoint_to_autofs_id(probe.mountpoint)
    IN /\ autofs_id \notin DOMAIN probe.before.master
       /\ autofs_id \notin DOMAIN probe.before.automap
       /\ Resolve(probe.mountpoint) \notin probe.before.dirs

\* C18: umount is idempotent.  When the automounter reload succeeds, a umount
\* of a mountpoint whose control files and directory are absent raises
\* nothing and changes nothing, and a umount that repeats the umount just
\* made leaves the files as that one left them.
C18_UmountIdempotent ==
    (probe.fn = "umount" /\ probe.reload_ok)
        => /\ NothingToUmount => (probe.raised = "no" /\ DiskUnchanged)
           /\ probe.repeat => (probe.raised = "no" /\ DiskUnchanged)

\* A umount repeated after one that removed files and directory of a mount.
C18_Witness ==
    /\ probe.fn = "umount"
    /\ probe.reload_ok
    /\ probe.rm_ok
    /\ probe.repeat
    /\ NothingToUmount
    /\ probe.raised = "no"
    /\ DiskUnchanged
    /\ automap # EmptyDict

----------------------------------------------------------------------------
(* C19 *)

\* The id and the path of each mountpoint handed to the manager, written out.
IdOf(mountpoint) ==
    IF mountpoint \in {MP_A, MP_A_SLASH} THEN <<"a">> ELSE <<"a", "-", "b">>

IdTextOf(mountpoint) ==
    IF mountpoint \in {MP_A, MP_A_SLASH} THEN "a" ELSE "a-b"

PathTextOf(mountpoint) ==
    IF mountpoint \in {MP_A, MP_A_SLASH} THEN "/a"
    ELSE IF mountpoint = MP_A_B THEN "/a/b" ELSE "/a-b"

\* The options of the map line, written out: the caller's, then those of the
\* descriptor.
OptionsTextOf(options, share_info) ==
    LET own == IF options = <<>> THEN "" ELSE "noexec,ro"
        derived == IF share_info.fs_type = "ceph"
                   THEN "fstype=ceph,mon_addr=m1/m2,secret=key"
                   ELSE IF share_info.hostname = "::1" THEN "port=2049" ELSE ""
    IN IF own = "" THEN derived
       ELSE IF derived = "" THEN own
       ELSE own \o "," \o derived

\* The mount source of each descriptor handed to the manager, written out.
EndpointTextOf(share_info) ==
    IF share_info.fs_type = "ceph" THEN "user@fsid.name=/export"
    ELSE IF share_info.hostname = "::1" THEN "[::1]:/srv" ELSE "h1:/srv"

\* C19: after mount(descriptor, mountpoint, options) returns, the master
\* file of the id holds exactly "/- /etc/auto.<id>" and the map file of the
\* id exactly "<mountpoint> -<options> <endpoint>", the options being the
\* caller's followed by the descriptor's, joined by commas, and the id the
\* resolved mountpoint without its leading "/" and with "-" for each other "/".
C19_MountWritesControlFiles ==
    (probe.fn = "mount" /\ probe.raised = "no")
        => LET id == IdOf(probe.mountpoint)
           IN /\ id \in DOMAIN master
              /\ id \in DOMAIN automap
              /\ master[id] = "/- /etc/auto." \o IdTextOf(probe.mountpoint)
              /\ automap[id].text =
                    PathTextOf(probe.mountpoint) \o " -"
                    \o OptionsTextOf(probe.options, probe.share_info)
                    \o " " \o EndpointTextOf(probe.share_info)

\* mount of an IPv6 NFS share with a port at /a/b, with options, returned.
C19_Witness ==
    /\ probe.fn = "mount"
    /\ probe.raised = "no"
    /\ probe.mountpoint = MP_A_B
    /\ probe.options # <<>>
    /\ <<"a", "-", "b">> \in DOMAIN automap
    /\ master[<<"a", "-", "b">>] = "/- /etc/auto.a-b"
    /\ automap[<<"a", "-", "b">>].text = "/a/b -noexec,ro,port=2049 [::1]:/srv"

----------------------------------------------------------------------------
(* C20 *)

\* C20: set_fs_info on a unit that is not the leader changes nothing: the
\* peer state, the databag of every relation and the secret store are as
\* they were before the call.
C20_NonLeaderChangesNothing ==
    (probe.fn = "set_fs_info" /\ ~probe.before.leader)
        => /\ provider.peer_data = probe.before.peer_data
           /\ provider.databags = probe.before.databags
           /\ provider.secrets = probe.before.secrets

\* A unit that lost the leadership, with a secret in the store, an endpoint
\* in the peer state and in a databag, is given a CephFS descriptor with
\* another key.
C20_Witness ==
    /\ probe.fn = "set_fs_info"
    /\ ~probe.before.leader
    /\ probe.fs_info.kind = "ceph"
    /\ "auth" \in DOMAIN provider.secrets
    /\ provider.secrets["auth"].content # probe.fs_info.key
    /\ "endpoint" \in DOMAIN provider.peer_data
    /\ \E r \in DOMAIN provider.databags :
          "endpoint" \in DOMAIN provider.databags[r]

----------------------------------------------------------------------------
(* C21 *)

\* The snapshots {a:1, b:2} and {a:1, b:3, c:4}.
CachedExample == [k \in {"a", "b"} |-> IF k = "a" THEN 1 ELSE 2]
NewExample == [k \in {"a", "b", "c"} |-> IF k = "a" THEN 1
                                         ELSE IF k = "b" THEN 3 ELSE 4]

\* diff was called on the two snapshots of the example.
DiffOfExample ==
    /\ probe.fn = "diff"
    /\ probe.cached = CachedExample
    /\ probe.new = NewExample

\* C21 as stated: for cached {a:1, b:2} and new {a:1, b:3, c:4}, diff returns
\* added = {c}, deleted = {} and changed = {b}.
C21_DiffExampleAsStated ==
    DiffOfExample
        => probe.res = [added |-> {"c"}, deleted |-> {}, changed |-> {"b"}]

\* C21: for cached {a:1, b:2} and new {a:1, b:3, c:4}, diff returns
\* added = {c}, deleted = {} and changed = {b, c}; and for every pair of
\* snapshots the added keys are among the changed ones.
C21_DiffExample ==
    /\ DiffOfExample
          => probe.res = [added |-> {"c"}, deleted |-> {},
                          changed |-> {"b", "c"}]
    /\ probe.fn = "diff" => probe.res.added \subseteq probe.res.changed

\* diff returned for the snapshots of the example.
C21_Witness ==
    /\ DiffOfExample
    /\ "c" \in probe.res.changed

----------------------------------------------------------------------------
(* C22 *)

\* The directory of the mountpoint existed when mount was called.
DirWasThere == Resolve(probe.mountpoint) \in probe.before.dirs

\* The directory in which mount creates the mountpoint existed.
ParentWasThere == DirExists(Parent(Resolve(probe.mountpoint)), probe.before.dirs)

\* C22: mount never fails because the directory of the mountpoint exists.
\* Whether the directory is absent, present, or was created by another actor
\* just before mount creates it, mount goes past the creation (it returns, or
\* fails with an error of the manager in a later step) and the directory
\* exists afterwards.
C22_MkdirToleratesExisting ==
    probe.fn = "mount"
        => /\ probe.raised # "FileExistsError"
           /\ (DirWasThere \/ ParentWasThere)
                 => /\ probe.raised \in {"no", "Error"}
                    /\ Resolve(probe.mountpoint) \in dirs
           /\ probe.raised = "no" => Resolve(probe.mountpoint) \in dirs

\* mount returned for a mountpoint whose directory another actor had just
\* created.
C22_Witness ==
    /\ probe.fn = "mount"
    /\ probe.raced
    /\ DirWasThere
    /\ probe.raised = "no"
    /\ Resolve(probe.mountpoint) \in dirs

----------------------------------------------------------------------------
(* C23 *)

\* mount reached the reload of autofs, and the reload failed.
ReloadFailedInMount ==
    /\ probe.fn = "mount"
    /\ probe.reload # "ok"
    /\ DirWasThere \/ ParentWasThere
    /\ probe.share_info.fs_type \in {"nfs", "ceph"}

\* C23: when autofs cannot be reloaded or restarted, mount fails with the
\* manager's Error.  The error is the one for an unsupported environment
\* exactly when the failure reads `Operation not permitted` and the machine
\* is detected as an LXD container; otherwise it is the generic one, also
\* when the detection itself fails.
C23_MountErrorKind ==
    ReloadFailedInMount
        => /\ probe.raised = "Error"
           /\ probe.message \in {"Mounting shares not supported on LXD containers",
                                   "Failed to mount"}
           /\ probe.message = "Mounting shares not supported on LXD containers"
                 <=> (probe.reload = "Operation not permitted"
                      /\ probe.virt = "lxc")

\* A permission denial on a machine whose virtualization cannot be detected:
\* the generic error.
C23_Witness ==
    /\ ReloadFailedInMount
    /\ probe.reload = "Operation not permitted"
    /\ probe.virt = "failed"
    /\ probe.raised = "Error"
    /\ probe.message = "Failed to mount"

----------------------------------------------------------------------------
(* C24 *)

\* _get_endpoint_and_opts was called.
EndpointCalled == probe.fn = "_get_endpoint_and_opts"

\* The host of an NFS endpoint, written out.
NfsHostTextOf(hostname) ==
    IF hostname = "::1" THEN "[::1]"
    ELSE IF hostname = "h1" THEN "h1" ELSE "10.0.0.1"

\* mon_addr, written out.
MonAddrTextOf(mons) ==
    IF Len(mons) = 1 THEN "mon_addr=m1"
    ELSE IF Len(mons) = 2 THEN "mon_addr=m1/m2" ELSE "mon_addr=m1/m2/m3"

\* What C24 says of CephFS and of the other kinds, and of the NFS endpoint.
EndpointExceptPort ==
    /\ probe.info.fs_type = "nfs"
          => /\ probe.res.raised = "no"
             /\ probe.res.endpoint =
                    NfsHostTextOf(probe.info.hostname) \o ":" \o probe.info.path
    /\ probe.info.fs_type = "ceph"
          => /\ probe.res.raised = "no"
             /\ probe.res.endpoint =
                    probe.info.user \o "@" \o probe.info.fsid \o "."
                    \o probe.info.name \o "=" \o probe.info.path
             /\ probe.res.options =
                    <<"fstype=ceph", MonAddrTextOf(probe.info.monitor_hosts),
                      "secret=" \o probe.info.key>>
    /\ probe.info.fs_type \notin {"nfs", "ceph"} => probe.res.raised = "Error"

\* C24 as stated: the NFS options are the single option port=N exactly when
\* a port is set.
C24_EndpointAsStated ==
    EndpointCalled
        => /\ EndpointExceptPort
           /\ probe.info.fs_type = "nfs"
                 => probe.res.options =
                      IF probe.info.port = None THEN <<>>
                      ELSE IF probe.info.port = Some(0) THEN <<"port=0">>
                      ELSE <<"port=2049">>

\* C24: the endpoint of an NFS descriptor is host:path with an IPv6 host in
\* brackets, and its options are the single option port=N exactly when a
\* port other than 0 is set; the endpoint of a CephFS descriptor is
\* user@fsid.name=path and its options fstype=ceph, mon_addr= the monitor
\* hosts joined by "/", and secret=<key>; any other descriptor is an Error.
C24_EndpointAndOptions ==
    EndpointCalled
        => /\ EndpointExceptPort
           /\ probe.info.fs_type = "nfs"
                 => probe.res.options =
                      IF probe.info.port \in {None, Some(0)} THEN <<>>
                      ELSE <<"port=2049">>

\* The endpoint of an IPv6 NFS descriptor with port 0 was derived.
C24_Witness ==
    /\ EndpointCalled
    /\ probe.info.fs_type = "nfs"
    /\ probe.info.hostname = "::1"
    /\ probe.info.port = Some(0)
    /\ probe.res.endpoint = "[::1]:/srv"
    /\ probe.res.options = <<>>

----------------------------------------------------------------------------
(* C25 *)

\* C25 (as claimed): _UriData.from_uri fails with ParseError for a URI with
\* an empty scheme, without host segment, with a host segment not wrapped in
\* matching parentheses, with an empty path, or with options that are not
\* key=value pairs.
C25_MalformedUriParseError ==
    probe.fn = "_UriData.from_uri" => probe.res.raised = "ParseError"

----------------------------------------------------------------------------
(* C26 *)

\* set_fs_info on the leader called to_uri of a CephFS descriptor.
CephToUriCalled ==
    /\ probe.fn = "set_fs_info"
    /\ probe.before.leader
    /\ probe.fs_info.kind = "ceph"

\* C26 (as claimed): CephfsInfo.to_uri produces a URI whose `auth` option is
\* the identifier of the secret labelled `auth`, which stores the key, and
\* no option of the URI is the key itself.
C26_UriHoldsSecretReference ==
    CephToUriCalled
        => /\ probe.uri.raised = "no"
           /\ "auth" \in DOMAIN probe.uri.secrets
           /\ probe.uri.secrets["auth"].content = probe.fs_info.key
           /\ probe.uri.value.options["auth"] = probe.uri.secrets["auth"].id
           /\ \A k \in DOMAIN probe.uri.value.options :
                 probe.uri.value.options[k] # probe.fs_info.key

----------------------------------------------------------------------------
(* C27 *)

\* The relations whose databag holds an endpoint.
Published == {r \in DOMAIN provider.databags :
                "endpoint" \in DOMAIN provider.databags[r]}

\* C27: a relation's databag holds an endpoint URI only if grant has been
\* called for that relation with the descriptor of that URI: the provider
\* never writes the endpoint before the grant.
C27_GrantBeforeEndpoint ==
    \A r \in Published :
        <<r, provider.databags[r].endpoint>> \in provider.granted

\* set_fs_info has published an endpoint to two relations, after granting
\* each of them.
C27_Witness ==
    /\ probe.fn = "set_fs_info"
    /\ probe.raised = "no"
    /\ Cardinality(Published) = 2
    /\ \A r \in Published :
          <<r, provider.databags[r].endpoint>> \in provider.granted

----------------------------------------------------------------------------
(* C28 *)

\* C28 (as claimed): on the leader, once the set_fs_info calls and the
\* relation-joined events so far have been handled, the peer state holds the
\* URI of the most recent set_fs_info and so does the databag of every
\* joined relation.
C28_ProviderConverges ==
    (provider.leader /\ provider.peers /\ provider.last.called)
        => /\ provider.last.uri # {}
           /\ "endpoint" \in DOMAIN provider.peer_data
           /\ provider.peer_data["endpoint"] \in provider.last.uri
           /\ \A r \in DOMAIN provider.databags :
                 /\ "endpoint" \in DOMAIN provider.databags[r]
                 /\ provider.databags[r]["endpoint"] \in provider.last.uri

----------------------------------------------------------------------------
(* C29 *)

\* The relations whose databag holds no endpoint yet.
Unpublished == {i \in 1..Len(rels) : "endpoint" \notin DOMAIN rels[i]}

\* C29 (as claimed): a pass that runs while a relation has not published its
\* endpoint yet does not raise in FsRequires.endpoints: the relation is left
\* out of the list and the pass goes on with the others.
C29_UnpublishedRelationSkipped ==
    (/\ pc = "done"
     /\ outcome \notin {"error_ensure", "blocked_invalid_configuration"}
     /\ Unpublished # {}
     /\ \A i \in 1..Len(rels) : i \notin Unpublished => Parses(i))
        => outcome # "error_endpoints"

----------------------------------------------------------------------------
(* C30 *)

\* C30: when a pass has ended with the active status, the persisted table is
\* exactly the set of the desired records of the advertised descriptors: one
\* record for each advertised kind, made of the configured options of the
\* kind and the URI of its descriptor, and no record of another kind.
C30_ActiveTableExact ==
    (pc = "done" /\ outcome = "active")
        => /\ table = {<<KindOf(i), Desired(i)>> : i \in 1..Len(rels)}
           /\ Cardinality(table) = Len(rels)
           /\ \A i, j \in 1..Len(rels) : KindOf(i) = KindOf(j) => i = j

\* A pass has ended active with two kinds recorded, after dropping or
\* replacing a record of the table it started from.
C30_Witness ==
    /\ pc = "done" /\ outcome = "active"
    /\ Len(rels) = 2
    /\ Cardinality(table) = 2
    /\ table0 # {}
    /\ ~(table0 \subseteq table)

----------------------------------------------------------------------------
(* C31 *)

\* The ids of the control files that mount had written, before the call
\* under `probe`, for a mountpoint other than the one of the call.
FilesOfOtherMountpoints ==
    {id \in DOMAIN probe.before.automap :
        probe.before.automap[id].mountpoint # Resolve(probe.mountpoint)}

\* C31 (as claimed): umount(m1) removes no control file that mount wrote for
\* a mountpoint m2 different from m1: the master file and the map file of m2
\* are after the call what they were before it.
C31_UmountSparesOtherMountpoints ==
    probe.fn = "umount"
        => \A id \in FilesOfOtherMountpoints :
              /\ id \in DOMAIN automap
              /\ id \in DOMAIN master
              /\ automap[id] = probe.before.automap[id]
              /\ master[id] = probe.before.master[id]

====
